---- MODULE Spec2Model ----
(***************************************************************************)
(* A model of download.go of radiko-auto-recorder: the bounded segment     *)
(* downloader (bulkDownload / downloadLink under the global semaphore      *)
(* sem), the per-program pipeline (Download, its resolver goroutine and    *)
(* downloadProgram) and the playlist parsers (getURI, getChunklist).       *)
(***************************************************************************)
EXTENDS Integers, Sequences, FiniteSets, TLC

\* ------------------------------------------------------------------ bounds
\* Capacity of the channel sem (download.go:26) in the model.
MaxConcurrency == 1
\* Attempts per URI and per time-shift resolution (download.go:38, 225).
MaxRetryAttempts == 2
\* Number of programs (one bulkDownload job each) handled concurrently.
NProgs == 2
\* Longest segment list of a job.
MaxLen == 2

\* Longest segment list a program's media playlist yields in the pipeline.
MaxSegs == 1
\* Calls of Download the caller makes beyond one per program.
MaxRecalls == 1
\* Most variant entries of a master playlist given to getURI.
MaxVariants == 2

Progs == 1..NProgs

\* A segment URI is its sequence of path elements; the last one is what
\* filepath.Split returns as the file name.
URIs == { <<"a", "s1">>, <<"a", "s2">>, <<"b", "s1">> }

RECURSIVE SeqsUpTo(_, _)
SeqsUpTo(S, n) ==
    IF n = 0 THEN { <<>> }
    ELSE LET shorter == SeqsUpTo(S, n - 1)
         IN  shorter \cup { Append(l, x) : l \in shorter, x \in S }

\* The downloader looks at a list only through which of its URIs are equal and
\* which share a file name, so lists are taken up to renaming: a non-empty
\* list starts with FirstURI.
FirstURI == <<"a", "s1">>
Lists == { l \in SeqsUpTo(URIs, MaxLen) : l = <<>> \/ l[1] = FirstURI }

\* ------------------------------------------------------------- playlists
\* What m3u8.DecodeFrom can be given: bytes that do not decode, a master
\* playlist (its Variants, entries possibly nil) or a media playlist (its
\* Segments, entries possibly nil).
NilVariant == [isNil |-> TRUE, URI |-> ""]
Variants == { NilVariant, [isNil |-> FALSE, URI |-> ""], [isNil |-> FALSE, URI |-> "m"] }
NilSegment == <<>>
Segments == URIs \cup { NilSegment }

Garbage == [kind |-> "garbage", variants |-> <<>>, segments |-> <<>>]
Masters == { [kind |-> "master", variants |-> v, segments |-> <<>>] :
                v \in SeqsUpTo(Variants, MaxVariants) }
Medias == { [kind |-> "media", variants |-> <<>>, segments |-> g] :
                g \in SeqsUpTo(Segments, MaxLen) }
Playlists == { Garbage } \cup Masters \cup Medias

\* What a request yields: no response (the request failed) or a body.
NoResponse == [kind |-> "none", variants |-> <<>>, segments |-> <<>>]
Responses == { NoResponse } \cup Playlists

\* m3u8.DecodeFrom(input, true): the list type and the error.
DecodeFrom(input) ==
    CASE input.kind = "master" -> [listType |-> "MASTER", err |-> "nil"]
      [] input.kind = "media"  -> [listType |-> "MEDIA", err |-> "nil"]
      [] OTHER                 -> [listType |-> "unknown", err |-> "decode"]

\* getURI's first return: when it gives up after decoding, what it returns
\* as error is the decoder's err.
GetURIEarly(d) == [uri |-> "", err |-> d.err]

\* Mutant: the test len(p.Variants) == 0, which lets a playlist of several
\* variants through.
getURIFirstVariant(input) ==
    LET d == DecodeFrom(input)
        v == input.variants
    IN  IF d.err # "nil" \/ d.listType # "MASTER" THEN GetURIEarly(d)
        ELSE IF Len(v) = 0 \/ v[1].isNil
             THEN [uri |-> "", err |-> "invalid m3u8 format"]
             ELSE [uri |-> v[1].URI, err |-> "nil"]

getURI(input) ==
    LET d == DecodeFrom(input)
        v == input.variants
    IN  IF d.err # "nil" \/ d.listType # "MASTER" THEN GetURIEarly(d)
        ELSE IF Len(v) # 1 \/ v[1].isNil
             THEN [uri |-> "", err |-> "invalid m3u8 format"]
             ELSE [uri |-> v[1].URI, err |-> "nil"]

\* The non-nil segments' URIs, in order.
RECURSIVE NonNilURIs(_)
NonNilURIs(g) ==
    IF g = <<>> THEN <<>>
    ELSE IF Head(g) = NilSegment THEN NonNilURIs(Tail(g))
         ELSE <<Head(g)>> \o NonNilURIs(Tail(g))

GetChunklistEarly(d) == [list |-> <<>>, err |-> d.err]

getChunklist(input) ==
    LET d == DecodeFrom(input)
    IN  IF d.err # "nil" \/ d.listType # "MEDIA" THEN GetChunklistEarly(d)
        ELSE [list |-> NonNilURIs(input.segments), err |-> "nil"]

\* An error value as the callers test it: nil or not.
ErrOf(e) == IF e = "nil" THEN "nil" ELSE "err"

\* ------------------------------------------------------------ downloader
\* What one call of downloadLink can do: succeed, or fail in http.Get, in
\* os.Create, or in io.Copy / file.Close.
Outcomes == { "nil", "get", "create", "copy" }

VARIABLES
    sem,        \* len(sem): slots of the global semaphore in use
    bpc,        \* bulkDownload of job p: "idle", "spawn", "returned"
    blist,      \* list argument of job p
    bnext,      \* number of list elements the range loop has handled
    bwg,        \* counter of the job's local sync.WaitGroup
    errFlag,    \* the job's shared errFlag
    bret,       \* returned value: "none" (not returned), "nil", "lack"
    wpc,        \* worker (p, k): "none", "acquire", "holding", "post", "done"
    wi,         \* the worker's loop counter i
    werr,       \* the worker's err
    wtries,     \* calls of downloadLink the worker has started
    dir,        \* file names present in the job's output directory
    fileFormat, \* the configured FileFormat
    ft,         \* prog.Ft of program p
    mainpc,     \* the caller: "calling", "waiting" (in wg.Wait), "unblocked"
    exited,     \* the process has ended in log.Fatal (os.Exit)
    ncalls,     \* calls of Download made for program p
    ppc,        \* where program p's retrieval is
    dret,       \* what the last Download(p) returned: "none", "nil", "err"
    rtries,     \* calls of TimeshiftProgM3U8 made by retry.Do
    rerr,       \* err of the resolver goroutine: "nil" or the last attempt's error
    uri,        \* uri of the resolver goroutine, then of downloadProgram
    chunklist,  \* chunklist of downloadProgram
    ltype,      \* listType the decoder gave getChunklist for the program's playlist
    wg,         \* counter of the shared sync.WaitGroup
    outDir,     \* the output directory exists
    aacDir,     \* the temporary directory: "none", "exists", "removed"
    outFile,    \* the file at output.AbsPath(): 0 absent, else the call that wrote it
    pin,        \* parser run: the input given to a parser
    pfun,       \* parser run: "none", "getURI", "getChunklist"
    pres,       \* parser run: what the parser returned
    cancelled   \* ctx of Download and downloadProgram has been cancelled

bulkVars == << sem, bpc, blist, bnext, bwg, errFlag, bret, wpc, wi, werr, wtries, dir >>
parseVars == << pin, pfun, pres >>
progVars == << fileFormat, ft, mainpc, exited, ncalls, ppc, dret, rtries, rerr,
              uri, chunklist, ltype, wg, outDir, aacDir, outFile >>
ctxVars == << cancelled >>
vars == << bulkVars, progVars, parseVars, ctxVars >>

Workers == 1..MaxLen

\* filepath.Split(link): the file name is the last path element.
Split(link) == link[Len(link)]

\* Mutant: the loop condition i <= MaxRetryAttempts.
LoopPcOneMore(i) == IF i <= MaxRetryAttempts THEN "acquire" ELSE "post"

\* The for statement of the worker: the body runs while i < MaxRetryAttempts.
LoopPc(i) == IF i < MaxRetryAttempts THEN "acquire" ELSE "post"

InitBulk ==
    /\ sem = 0
    /\ bpc = [p \in Progs |-> "idle"]
    /\ blist = [p \in Progs |-> <<>>]
    /\ bnext = [p \in Progs |-> 0]
    /\ bwg = [p \in Progs |-> 0]
    /\ errFlag = [p \in Progs |-> FALSE]
    /\ bret = [p \in Progs |-> "none"]
    /\ wpc = [p \in Progs |-> [k \in Workers |-> "none"]]
    /\ wi = [p \in Progs |-> [k \in Workers |-> 0]]
    /\ werr = [p \in Progs |-> [k \in Workers |-> "nil"]]
    /\ wtries = [p \in Progs |-> [k \in Workers |-> 0]]
    /\ dir = [p \in Progs |-> {}]

\* ------------------------------------------------------------- programs
Formats == { "aac", "mp3", "wav" }

\* prog.Ft strings: three that follow DatetimeLayout and one that does not.
TimeOf == [ s \in { "20240101045900", "20240101050000", "20240101050100" } |->
              CASE s = "20240101045900" -> 0
                [] s = "20240101050000" -> 1
                [] s = "20240101050100" -> 2 ]
FtValues == DOMAIN TimeOf \cup { "2024-01-01" }

\* CurrentTime, as a point of the same time line.
CurrentTime == 1

\* Mutant: the parse error dropped, the zero time used instead.
ParseInLocationNoErr(start) ==
    IF start \in DOMAIN TimeOf THEN [err |-> FALSE, t |-> TimeOf[start]]
    ELSE [err |-> FALSE, t |-> 0]

\* time.ParseInLocation(DatetimeLayout, start, Location)
ParseInLocation(start) ==
    IF start \in DOMAIN TimeOf THEN [err |-> FALSE, t |-> TimeOf[start]]
    ELSE [err |-> TRUE, t |-> 0]

\* Mutant: !startTime.Before(CurrentTime), which also skips an equal time.
NotBefore(t, u) == t >= u

\* startTime.After(CurrentTime)
After(t, u) == t > u

InitProg ==
    /\ fileFormat \in Formats
    /\ ft \in [Progs -> FtValues]
    /\ mainpc = "calling"
    /\ exited = FALSE
    /\ ncalls = [p \in Progs |-> 0]
    /\ ppc = [p \in Progs |-> "new"]
    /\ dret = [p \in Progs |-> "none"]
    /\ rtries = [p \in Progs |-> 0]
    /\ rerr = [p \in Progs |-> "nil"]
    /\ uri = [p \in Progs |-> ""]
    /\ chunklist = [p \in Progs |-> <<>>]
    /\ ltype = [p \in Progs |-> "none"]
    /\ wg = 0
    /\ outDir = [p \in Progs |-> FALSE]
    /\ aacDir = [p \in Progs |-> "none"]
    /\ outFile = [p \in Progs |-> 0]
    /\ cancelled = FALSE

\* The state of the programs when only the downloader is exercised.
ProgIdle ==
    /\ InitProg
    /\ fileFormat = "aac"
    /\ ft = [p \in Progs |-> "20240101050000"]

NoResult == [uri |-> "", list |-> <<>>, err |-> "nil"]

ParseIdle ==
    /\ pin = Garbage
    /\ pfun = "none"
    /\ pres = NoResult

\* The job's variables set for a call that is at pc with argument list, its
\* output directory empty.
BulkSet(p, pc, list) ==
    /\ bpc' = [bpc EXCEPT ![p] = pc]
    /\ blist' = [blist EXCEPT ![p] = list]
    /\ bnext' = [bnext EXCEPT ![p] = 0]
    /\ bwg' = [bwg EXCEPT ![p] = 0]
    /\ errFlag' = [errFlag EXCEPT ![p] = FALSE]
    /\ bret' = [bret EXCEPT ![p] = "none"]
    /\ wpc' = [wpc EXCEPT ![p] = [k \in Workers |-> "none"]]
    /\ wi' = [wi EXCEPT ![p] = [k \in Workers |-> 0]]
    /\ werr' = [werr EXCEPT ![p] = [k \in Workers |-> "nil"]]
    /\ wtries' = [wtries EXCEPT ![p] = [k \in Workers |-> 0]]
    /\ dir' = [dir EXCEPT ![p] = {}]
    /\ UNCHANGED sem

\* bulkDownload(list, output) is entered, output being a new empty directory:
\* errFlag, wg and the workers are those of this call.
bulkDownload(p, list) ==
    /\ bpc[p] \in { "idle", "returned" }
    /\ BulkSet(p, "spawn", list)

\* Mutant: the range loop walking the list from its last element.
SpawnLastFirst(p) ==
    /\ ~exited
    /\ bpc[p] = "spawn"
    /\ bnext[p] < Len(blist[p])
    /\ bnext' = [bnext EXCEPT ![p] = @ + 1]
    /\ bwg' = [bwg EXCEPT ![p] = @ + 1]
    /\ wpc' = [wpc EXCEPT ![p][Len(blist[p]) - bnext[p]] = LoopPc(0)]
    /\ UNCHANGED << sem, bpc, blist, errFlag, bret, werr, wi, wtries, dir >>
    /\ UNCHANGED << progVars, parseVars, ctxVars >>

\* One iteration of the range loop: wg.Add(1) and go func(link).
Spawn(p) ==
    /\ ~exited
    /\ bpc[p] = "spawn"
    /\ bnext[p] < Len(blist[p])
    /\ bnext' = [bnext EXCEPT ![p] = @ + 1]
    /\ bwg' = [bwg EXCEPT ![p] = @ + 1]
    /\ wpc' = [wpc EXCEPT ![p][bnext[p] + 1] = LoopPc(0)]
    /\ UNCHANGED << sem, bpc, blist, errFlag, bret, werr, wi, wtries, dir >>
    /\ UNCHANGED << progVars, parseVars, ctxVars >>

\* Mutant: a channel with one slot more than MaxConcurrency.
SemFreeOneMore == sem < MaxConcurrency + 1

\* sem <- struct{}{} blocks while the channel is full.
SemFree == sem < MaxConcurrency

Acquire(p, k) ==
    /\ ~exited
    /\ wpc[p][k] = "acquire"
    /\ SemFree
    /\ sem' = sem + 1
    /\ wpc' = [wpc EXCEPT ![p][k] = "holding"]
    /\ wtries' = [wtries EXCEPT ![p][k] = @ + 1]
    /\ UNCHANGED << bpc, blist, bnext, bwg, errFlag, bret, wi, werr, dir >>
    /\ UNCHANGED << progVars, parseVars, ctxVars >>

\* The files of the output directory after downloadLink(link, output) ended
\* with outcome o: os.Create has made the file unless http.Get or os.Create
\* itself failed.
downloadLink(files, link, o) ==
    IF o \in { "get", "create" } THEN files ELSE files \cup { Split(link) }

\* Where the worker goes after an attempt: break on success, else i++.
AfterAttempt(i, o) == IF o = "nil" THEN "post" ELSE LoopPc(i + 1)

\* Mutant: the slot released only after a successful attempt (<-sem placed
\* after the test of err).
AttemptKeepsSlotOnError(p, k, o) ==
    /\ ~exited
    /\ wpc[p][k] = "holding"
    /\ dir' = [dir EXCEPT ![p] = downloadLink(@, blist[p][k], o)]
    /\ werr' = [werr EXCEPT ![p][k] = ErrOf(o)]
    /\ sem' = IF o = "nil" THEN sem - 1 ELSE sem
    /\ wi' = [wi EXCEPT ![p][k] = IF o = "nil" THEN @ ELSE @ + 1]
    /\ wpc' = [wpc EXCEPT ![p][k] = AfterAttempt(wi[p][k], o)]
    /\ UNCHANGED << bpc, blist, bnext, bwg, errFlag, bret, wtries >>
    /\ UNCHANGED << progVars, parseVars, ctxVars >>

\* downloadLink returns, the slot is released (<-sem), err is tested.
Attempt(p, k, o) ==
    /\ ~exited
    /\ wpc[p][k] = "holding"
    /\ dir' = [dir EXCEPT ![p] = downloadLink(@, blist[p][k], o)]
    /\ werr' = [werr EXCEPT ![p][k] = ErrOf(o)]
    /\ sem' = sem - 1
    /\ wi' = [wi EXCEPT ![p][k] = IF o = "nil" THEN @ ELSE @ + 1]
    /\ wpc' = [wpc EXCEPT ![p][k] = AfterAttempt(wi[p][k], o)]
    /\ UNCHANGED << bpc, blist, bnext, bwg, errFlag, bret, wtries >>
    /\ UNCHANGED << progVars, parseVars, ctxVars >>

\* Mutant: errFlag = (err != nil), a later success clearing the flag.
FlagAfterAssign(flag, err) == err # "nil"

\* After the loop: errFlag = true if err != nil, then the deferred wg.Done().
FlagAfter(flag, err) == IF err # "nil" THEN TRUE ELSE flag

\* Mutant: the worker returning without wg.Done().
PostNoDone(p, k) ==
    /\ ~exited
    /\ wpc[p][k] = "post"
    /\ errFlag' = [errFlag EXCEPT ![p] = FlagAfter(@, werr[p][k])]
    /\ wpc' = [wpc EXCEPT ![p][k] = "done"]
    /\ UNCHANGED << sem, bpc, blist, bnext, bwg, bret, wi, werr, wtries, dir >>
    /\ UNCHANGED << progVars, parseVars, ctxVars >>

\* The end of the worker: the test of err, then the deferred wg.Done().
Post(p, k) ==
    /\ ~exited
    /\ wpc[p][k] = "post"
    /\ errFlag' = [errFlag EXCEPT ![p] = FlagAfter(@, werr[p][k])]
    /\ bwg' = [bwg EXCEPT ![p] = @ - 1]
    /\ wpc' = [wpc EXCEPT ![p][k] = "done"]
    /\ UNCHANGED << sem, bpc, blist, bnext, bret, wi, werr, wtries, dir >>
    /\ UNCHANGED << progVars, parseVars, ctxVars >>

\* Mutant: no wg.Wait() before the result is read.
WaitDoneSkipped(p) == TRUE

\* wg.Wait() returns once the counter is zero.
WaitDone(p) == bwg[p] = 0

BulkResult(flag) == IF flag THEN "lack" ELSE "nil"

BulkReturn(p) ==
    /\ ~exited
    /\ bpc[p] = "spawn"
    /\ bnext[p] = Len(blist[p])
    /\ WaitDone(p)
    /\ bpc' = [bpc EXCEPT ![p] = "returned"]
    /\ bret' = [bret EXCEPT ![p] = BulkResult(errFlag[p])]
    /\ UNCHANGED << sem, blist, bnext, bwg, errFlag, wpc, wi, werr, wtries, dir >>
    /\ UNCHANGED << progVars, parseVars, ctxVars >>

\* A caller starts a job on a fresh directory with some list.
BulkCall(p, l) ==
    /\ bulkDownload(p, l)
    /\ UNCHANGED << progVars, parseVars, ctxVars >>

NextBulk ==
    \/ \E p \in Progs, l \in Lists : BulkCall(p, l)
    \/ \E p \in Progs : Spawn(p)
    \/ \E p \in Progs, k \in Workers : Acquire(p, k)
    \/ \E p \in Progs, k \in Workers, o \in Outcomes : Attempt(p, k, o)
    \/ \E p \in Progs, k \in Workers : Post(p, k)
    \/ \E p \in Progs : BulkReturn(p)

InitJobs == InitBulk /\ ProgIdle /\ ParseIdle

SpecBulk == InitJobs /\ [][NextBulk]_vars

\* A caller starts the one job of p.
BulkCallOnce(p, l) ==
    /\ bpc[p] = "idle"
    /\ BulkCall(p, l)

\* NProgs jobs, each called once, running side by side.
NextBulkOnce ==
    \/ \E p \in Progs, l \in Lists : BulkCallOnce(p, l)
    \/ \E p \in Progs : Spawn(p)
    \/ \E p \in Progs, k \in Workers : Acquire(p, k)
    \/ \E p \in Progs, k \in Workers, o \in Outcomes : Attempt(p, k, o)
    \/ \E p \in Progs, k \in Workers : Post(p, k)
    \/ \E p \in Progs : BulkReturn(p)

\* The Go scheduler runs a goroutine that can take a step, and every call of
\* downloadLink returns: while some step is possible, one is taken.
FairBulk == InitJobs /\ [][NextBulkOnce]_vars /\ WF_vars(NextBulkOnce)

\* -------------------------------------------------------------- pipeline
Terminal == { "future", "exists", "badtime", "cfgerr", "direrr", "unresolved",
              "listerr", "tmperr", "dlerr", "concaterr", "outerr", "success" }

\* The terminal states of a retrieval that was detached and failed.
Failed == { "unresolved", "listerr", "tmperr", "dlerr", "concaterr", "outerr" }

\* Mutant: the existence check looks at a path that never exists.
IsExistNever(p) == FALSE

\* output.IsExist()
IsExist(p) == outFile[p] # 0

\* Calls of Download made for a program that had been given to it before.
RECURSIVE SumOver(_, _)
SumOver(f, S) ==
    IF S = {} THEN 0
    ELSE LET x == CHOOSE y \in S : TRUE
         IN  f[x] + SumOver(f, S \ {x})

Recalls == SumOver([p \in Progs |-> IF ncalls[p] > 0 THEN ncalls[p] - 1 ELSE 0], Progs)

\* The time check: the start time parses and is after CurrentTime.
DownloadSkipsFuture(p) ==
    /\ ~ParseInLocation(ft[p]).err
    /\ After(ParseInLocation(ft[p]).t, CurrentTime)

\* Mutant: the go statement without the wg.Add(1) before it.
DetachNoAdd(p) ==
    /\ wg' = wg
    /\ ppc' = [ppc EXCEPT ![p] = "resolve"]
    /\ rtries' = [rtries EXCEPT ![p] = 0]
    /\ rerr' = [rerr EXCEPT ![p] = "nil"]
    /\ uri' = [uri EXCEPT ![p] = ""]

\* wg.Add(1) and the go statement: the resolver goroutine starts.
Detach(p) ==
    /\ wg' = wg + 1
    /\ ppc' = [ppc EXCEPT ![p] = "resolve"]
    /\ rtries' = [rtries EXCEPT ![p] = 0]
    /\ rerr' = [rerr EXCEPT ![p] = "nil"]
    /\ uri' = [uri EXCEPT ![p] = ""]

\* Download, up to its return: the checks, then wg.Add(1) and the go
\* statement. cfgOk and dirOk are whether radigo.NewOutputConfig and
\* output.SetupDir succeed.
Download(p, cfgOk, dirOk) ==
    /\ ~exited
    /\ mainpc = "calling"
    /\ ncalls[p] = 0 \/ Recalls < MaxRecalls
    /\ ppc[p] \in Terminal \cup { "new" }
    /\ ncalls' = [ncalls EXCEPT ![p] = @ + 1]
    /\ IF ParseInLocation(ft[p]).err
       THEN /\ ppc' = [ppc EXCEPT ![p] = "badtime"]
            /\ dret' = [dret EXCEPT ![p] = "err"]
            /\ UNCHANGED << wg, rtries, rerr, uri, outDir >>
       ELSE IF DownloadSkipsFuture(p)
       THEN /\ ppc' = [ppc EXCEPT ![p] = "future"]
            /\ dret' = [dret EXCEPT ![p] = "nil"]
            /\ UNCHANGED << wg, rtries, rerr, uri, outDir >>
       ELSE IF ~cfgOk
       THEN /\ ppc' = [ppc EXCEPT ![p] = "cfgerr"]
            /\ dret' = [dret EXCEPT ![p] = "err"]
            /\ UNCHANGED << wg, rtries, rerr, uri, outDir >>
       ELSE IF ~dirOk
       THEN /\ ppc' = [ppc EXCEPT ![p] = "direrr"]
            /\ dret' = [dret EXCEPT ![p] = "err"]
            /\ UNCHANGED << wg, rtries, rerr, uri, outDir >>
       ELSE /\ outDir' = [outDir EXCEPT ![p] = TRUE]
            /\ dret' = [dret EXCEPT ![p] = "nil"]
            /\ IF IsExist(p)
               THEN /\ ppc' = [ppc EXCEPT ![p] = "exists"]
                    /\ UNCHANGED << wg, rtries, rerr, uri >>
               ELSE Detach(p)
    /\ UNCHANGED << fileFormat, ft, mainpc, exited, chunklist, ltype, aacDir, outFile >>
    /\ UNCHANGED bulkVars
    /\ UNCHANGED << parseVars, ctxVars >>

\* ctx.Done() is closed: a call that was given ctx fails. The calls given
\* ctx are client.Do (the request is made WithContext(ctx)),
\* radigo.ConcatAACFilesFromList and radigo.ConvertAACtoMP3; http.Get in
\* downloadLink and in getChunklistFromM3U8 is not given it.
CtxDone == cancelled

\* TimeshiftProgM3U8: client.Do fails, or getURI reads the response body.
TimeshiftProgM3U8(resp) ==
    IF resp = NoResponse THEN [uri |-> "", err |-> "net"] ELSE getURI(resp)

\* Mutant: one attempt more than MaxRetryAttempts.
RetryStopsOneMore(n, err) == err = "nil" \/ n > MaxRetryAttempts

\* retry.Do stops after an attempt without error or after MaxRetryAttempts
\* attempts.
RetryStops(n, err) == err = "nil" \/ n >= MaxRetryAttempts

\* Mutant: the return on an empty uri without wg.Done().
UnresolvedNoDone(p) ==
    /\ wg' = wg
    /\ ppc' = [ppc EXCEPT ![p] = "unresolved"]
    /\ rtries' = [rtries EXCEPT ![p] = @ + 1]
    /\ uri' = [uri EXCEPT ![p] = ""]

\* The resolver goroutine with an empty uri: wg.Done() and return.
Unresolved(p) ==
    /\ wg' = wg - 1
    /\ ppc' = [ppc EXCEPT ![p] = "unresolved"]
    /\ rtries' = [rtries EXCEPT ![p] = @ + 1]
    /\ uri' = [uri EXCEPT ![p] = ""]

\* One attempt of retry.Do and, when it was the last, the rest of the
\* goroutine: wg.Done() on an empty uri, else go downloadProgram.
Resolve(p, resp) ==
    /\ ~exited
    /\ ppc[p] = "resolve"
    /\ CtxDone => resp = NoResponse
    /\ LET r == TimeshiftProgM3U8(resp)
       IN  IF ~RetryStops(rtries[p] + 1, r.err)
           THEN /\ rtries' = [rtries EXCEPT ![p] = @ + 1]
                /\ rerr' = [rerr EXCEPT ![p] = ErrOf(r.err)]
                /\ uri' = [uri EXCEPT ![p] = r.uri]
                /\ UNCHANGED << wg, ppc >>
           ELSE IF r.uri = ""
           THEN /\ Unresolved(p)
                /\ rerr' = [rerr EXCEPT ![p] = ErrOf(r.err)]
           ELSE /\ rtries' = [rtries EXCEPT ![p] = 0]
                /\ rerr' = [rerr EXCEPT ![p] = "nil"]
                /\ uri' = [uri EXCEPT ![p] = r.uri]
                /\ ppc' = [ppc EXCEPT ![p] = "list"]
                /\ UNCHANGED wg
    /\ UNCHANGED << fileFormat, ft, mainpc, exited, ncalls, dret, chunklist, ltype,
                    outDir, aacDir, outFile >>
    /\ UNCHANGED bulkVars
    /\ UNCHANGED << parseVars, ctxVars >>

\* downloadProgram returns at state t: the deferred calls run, os.RemoveAll
\* (aacDir) when it was registered and wg.Done(); the function's locals and
\* its bulkDownload call are gone.
Cleanup(p) ==
    /\ aacDir' = [aacDir EXCEPT ![p] = IF @ = "exists" THEN "removed" ELSE @]
    /\ BulkSet(p, "idle", <<>>)

Return(p, t) ==
    /\ ppc' = [ppc EXCEPT ![p] = t]
    /\ wg' = wg - 1
    /\ uri' = [uri EXCEPT ![p] = ""]
    /\ chunklist' = [chunklist EXCEPT ![p] = <<>>]
    /\ ltype' = [ltype EXCEPT ![p] = "none"]
    /\ Cleanup(p)

\* getChunklistFromM3U8(uri): http.Get, then getChunklist on the body.
getChunklistFromM3U8(resp) ==
    IF resp = NoResponse THEN [list |-> <<>>, err |-> "net"] ELSE getChunklist(resp)

List(p, resp) ==
    /\ ~exited
    /\ ppc[p] = "list"
    /\ LET r == getChunklistFromM3U8(resp)
       IN  /\ r.list \in Lists
           /\ Len(r.list) <= MaxSegs
           /\ IF r.err # "nil"
              THEN Return(p, "listerr")
              ELSE /\ ppc' = [ppc EXCEPT ![p] = "tempdir"]
                   /\ chunklist' = [chunklist EXCEPT ![p] = r.list]
                   /\ ltype' = [ltype EXCEPT ![p] = DecodeFrom(resp).listType]
                   /\ UNCHANGED << wg, uri, aacDir, bulkVars >>
    /\ UNCHANGED << fileFormat, ft, mainpc, exited, ncalls, dret, rtries, rerr,
                    outDir, outFile >>
    /\ UNCHANGED << parseVars, ctxVars >>

\* output.TempAACDir(), defer os.RemoveAll(aacDir), and the call of
\* bulkDownload(chunklist, aacDir).
TempDir(p, ok) ==
    /\ ~exited
    /\ ppc[p] = "tempdir"
    /\ IF ~ok
       THEN Return(p, "tmperr")
       ELSE /\ aacDir' = [aacDir EXCEPT ![p] = "exists"]
            /\ ppc' = [ppc EXCEPT ![p] = "bulk"]
            /\ bulkDownload(p, chunklist[p])
            /\ UNCHANGED << wg, uri, chunklist, ltype >>
    /\ UNCHANGED << fileFormat, ft, mainpc, exited, ncalls, dret, rtries, rerr,
                    outDir, outFile >>
    /\ UNCHANGED << parseVars, ctxVars >>

\* bulkDownload has returned to downloadProgram.
AfterBulk(p) ==
    /\ ~exited
    /\ ppc[p] = "bulk"
    /\ bpc[p] = "returned"
    /\ IF bret[p] # "nil"
       THEN Return(p, "dlerr")
       ELSE /\ ppc' = [ppc EXCEPT ![p] = "concat"]
            /\ UNCHANGED << wg, uri, chunklist, ltype, aacDir, bulkVars >>
    /\ UNCHANGED << fileFormat, ft, mainpc, exited, ncalls, dret, rtries, rerr,
                    outDir, outFile >>
    /\ UNCHANGED << parseVars, ctxVars >>

\* radigo.ConcatAACFilesFromList(ctx, aacDir)
Concat(p, ok) ==
    /\ ~exited
    /\ ppc[p] = "concat"
    /\ CtxDone => ~ok
    /\ IF ~ok
       THEN Return(p, "concaterr")
       ELSE /\ ppc' = [ppc EXCEPT ![p] = "finalize"]
            /\ UNCHANGED << wg, uri, chunklist, ltype, aacDir, bulkVars >>
    /\ UNCHANGED << fileFormat, ft, mainpc, exited, ncalls, dret, rtries, rerr,
                    outDir, outFile >>
    /\ UNCHANGED << parseVars, ctxVars >>

\* log.Fatal: os.Exit(1), no deferred call runs, every goroutine ends.
Fatal(p) ==
    /\ exited' = TRUE
    /\ ppc' = [ppc EXCEPT ![p] = "fatal"]
    /\ UNCHANGED << wg, uri, chunklist, ltype, aacDir, outFile, bulkVars >>

\* The switch on output.AudioFormat(): os.Rename, radigo.ConvertAACtoMP3 or
\* log.Fatal; ok is whether the rename or the conversion succeeds.
Finalize(p, ok) ==
    /\ ~exited
    /\ ppc[p] = "finalize"
    /\ (CtxDone /\ fileFormat = "mp3") => ~ok
    /\ IF fileFormat \notin { "aac", "mp3" }
       THEN Fatal(p)
       ELSE /\ UNCHANGED exited
            /\ IF ~ok
               THEN /\ Return(p, "outerr")
                    /\ UNCHANGED outFile
               ELSE /\ outFile' = [outFile EXCEPT ![p] = ncalls[p]]
                    /\ ppc' = [ppc EXCEPT ![p] = "tag"]
                    /\ UNCHANGED << wg, uri, chunklist, ltype, aacDir, bulkVars >>
    /\ UNCHANGED << fileFormat, ft, mainpc, ncalls, dret, rtries, rerr, outDir >>
    /\ UNCHANGED << parseVars, ctxVars >>

\* id3v2.Open, the tag setters and tag.Save: failures are logged only; then
\* the function returns.
Tag(p, openOk, saveOk) ==
    /\ ~exited
    /\ ppc[p] = "tag"
    /\ Return(p, "success")
    /\ UNCHANGED << fileFormat, ft, mainpc, exited, ncalls, dret, rtries, rerr,
                    outDir, outFile >>
    /\ UNCHANGED << parseVars, ctxVars >>

\* The caller has made its calls of Download and enters wg.Wait().
MainWait ==
    /\ ~exited
    /\ mainpc = "calling"
    /\ \A p \in Progs : ncalls[p] >= 1
    /\ mainpc' = "waiting"
    /\ UNCHANGED << fileFormat, ft, exited, ncalls, ppc, dret, rtries, rerr, uri,
                    chunklist, ltype, wg, outDir, aacDir, outFile, bulkVars >>
    /\ UNCHANGED << parseVars, ctxVars >>

\* wg.Wait() returns when the counter is zero.
MainUnblock ==
    /\ ~exited
    /\ mainpc = "waiting"
    /\ wg = 0
    /\ mainpc' = "unblocked"
    /\ UNCHANGED << fileFormat, ft, exited, ncalls, ppc, dret, rtries, rerr, uri,
                    chunklist, ltype, wg, outDir, aacDir, outFile, bulkVars >>
    /\ UNCHANGED << parseVars, ctxVars >>

Next ==
    \/ \E p \in Progs, cfgOk, dirOk \in BOOLEAN : Download(p, cfgOk, dirOk)
    \/ \E p \in Progs, resp \in Responses : Resolve(p, resp)
    \/ \E p \in Progs, resp \in Responses : List(p, resp)
    \/ \E p \in Progs, ok \in BOOLEAN : TempDir(p, ok)
    \/ \E p \in Progs : Spawn(p)
    \/ \E p \in Progs, k \in Workers : Acquire(p, k)
    \/ \E p \in Progs, k \in Workers, o \in Outcomes : Attempt(p, k, o)
    \/ \E p \in Progs, k \in Workers : Post(p, k)
    \/ \E p \in Progs : BulkReturn(p)
    \/ \E p \in Progs : AfterBulk(p)
    \/ \E p \in Progs, ok \in BOOLEAN : Concat(p, ok)
    \/ \E p \in Progs, ok \in BOOLEAN : Finalize(p, ok)
    \/ \E p \in Progs, openOk, saveOk \in BOOLEAN : Tag(p, openOk, saveOk)
    \/ MainWait
    \/ MainUnblock

Init == InitBulk /\ InitProg /\ ParseIdle

Spec == Init /\ [][Next]_vars

\* The owner of ctx cancels it (or its deadline passes), at any moment.
Cancel ==
    /\ ~exited
    /\ ~cancelled
    /\ cancelled' = TRUE
    /\ UNCHANGED << bulkVars, progVars, parseVars >>

NextCancel ==
    \/ \E p \in Progs, cfgOk, dirOk \in BOOLEAN : Download(p, cfgOk, dirOk)
    \/ \E p \in Progs, resp \in Responses : Resolve(p, resp)
    \/ \E p \in Progs, resp \in Responses : List(p, resp)
    \/ \E p \in Progs, ok \in BOOLEAN : TempDir(p, ok)
    \/ \E p \in Progs : Spawn(p)
    \/ \E p \in Progs, k \in Workers : Acquire(p, k)
    \/ \E p \in Progs, k \in Workers, o \in Outcomes : Attempt(p, k, o)
    \/ \E p \in Progs, k \in Workers : Post(p, k)
    \/ \E p \in Progs : BulkReturn(p)
    \/ \E p \in Progs : AfterBulk(p)
    \/ \E p \in Progs, ok \in BOOLEAN : Concat(p, ok)
    \/ \E p \in Progs, ok \in BOOLEAN : Finalize(p, ok)
    \/ \E p \in Progs, openOk, saveOk \in BOOLEAN : Tag(p, openOk, saveOk)
    \/ MainWait
    \/ MainUnblock
    \/ Cancel

\* The pipeline with a context that may be cancelled.
SpecCancel == Init /\ [][NextCancel]_vars

\* The Go scheduler runs every goroutine that can take a step, and every call
\* the pipeline makes returns: some enabled step is eventually taken.
FairSpec == Init /\ [][Next]_vars /\ WF_vars(Next)

\* -------------------------------------------------------------- parsers
\* Each parser applied to each input.
InitParse ==
    /\ InitBulk
    /\ ProgIdle
    /\ pin \in Playlists
    /\ pfun = "none"
    /\ pres = NoResult

CallGetURI ==
    /\ pfun = "none"
    /\ pfun' = "getURI"
    /\ pres' = [NoResult EXCEPT !.uri = getURI(pin).uri, !.err = getURI(pin).err]
    /\ UNCHANGED << pin, bulkVars, progVars, ctxVars >>

CallGetChunklist ==
    /\ pfun = "none"
    /\ pfun' = "getChunklist"
    /\ pres' = [NoResult EXCEPT !.list = getChunklist(pin).list,
                                !.err = getChunklist(pin).err]
    /\ UNCHANGED << pin, bulkVars, progVars, ctxVars >>

NextParse ==
    \/ CallGetURI
    \/ CallGetChunklist

SpecParse == InitParse /\ [][NextParse]_vars

\* =================================================================
\* Properties of the downloader, checked under SpecBulk.

Slots == { <<p, k>> \in Progs \X Workers : k <= Len(blist[p]) }
Holding == { x \in Slots : wpc[x[1]][x[2]] = "holding" }
Succeeded(p, k) == wpc[p][k] \in { "post", "done" } /\ werr[p][k] = "nil"
Exhausted(p, k) == wpc[p][k] \in { "post", "done" } /\ werr[p][k] # "nil"

\* C1: in every reachable state the download attempts holding a slot of sem,
\* counted over all jobs together, are at most MaxConcurrency.
C1_GlobalCap ==
    /\ Cardinality(Holding) <= MaxConcurrency
    /\ sem <= MaxConcurrency

\* C1 witness: every slot is held while a worker of another job than a
\* holder's is waiting for one.
C1_Witness ==
    /\ Cardinality(Holding) = MaxConcurrency
    /\ \E x \in Holding, y \in Slots :
          x[1] # y[1] /\ wpc[y[1]][y[2]] = "acquire"

\* C2: when bulkDownload has returned, every URI of its list has finished:
\* no worker is unstarted, waiting for a slot, downloading or about to
\* report.
C2_ReturnsAfterAll ==
    \A p \in Progs :
        bpc[p] = "returned" =>
            \A k \in 1..Len(blist[p]) : wpc[p][k] = "done"

\* C2 witness: a job has returned, one of its URIs having exhausted its
\* retries and another having succeeded on a retry.
C2_Witness ==
    \E p \in Progs :
        /\ bpc[p] = "returned"
        /\ \E k, m \in 1..Len(blist[p]) :
              /\ Exhausted(p, k)
              /\ Succeeded(p, m) /\ wtries[p][m] > 1

\* C3: bulkDownload returns the aggregate error exactly when some URI failed
\* on all MaxRetryAttempts attempts, and nil exactly when every URI succeeded.
C3_AggregateError ==
    \A p \in Progs :
        bret[p] # "none" =>
            /\ bret[p] = "lack" <=>
                  \E k \in 1..Len(blist[p]) :
                      Exhausted(p, k) /\ wtries[p][k] = MaxRetryAttempts
            /\ bret[p] = "nil" <=>
                  \A k \in 1..Len(blist[p]) : Succeeded(p, k)

\* C3 witness: the aggregate error is returned for a list whose first URI
\* failed and whose last URI succeeded.
C3_Witness ==
    \E p \in Progs :
        /\ bret[p] = "lack"
        /\ Len(blist[p]) > 1
        /\ Exhausted(p, 1)
        /\ Succeeded(p, Len(blist[p]))

\* C4: when bulkDownload returns, the files of the destination directory are
\* those of the succeeded URIs, one each, N - K in number, and none of a URI
\* that exhausted its retries.
C4_FilesAreSuccesses ==
    \A p \in Progs :
        bret[p] # "none" =>
            LET ok == { k \in 1..Len(blist[p]) : Succeeded(p, k) }
            IN  /\ dir[p] = { Split(blist[p][k]) : k \in ok }
                /\ Cardinality(dir[p]) = Cardinality(ok)

\* C5: a URI is attempted at least once and at most MaxRetryAttempts times,
\* never again after a success, is declared failed only after
\* MaxRetryAttempts failed attempts, and an attempt runs only with a slot.
C5_Attempts ==
    /\ sem = Cardinality(Holding)
    /\ \A x \in Slots :
        LET p == x[1]
            k == x[2]
        IN  /\ wtries[p][k] <= MaxRetryAttempts
            /\ wpc[p][k] \in { "post", "done" } => wtries[p][k] >= 1
            /\ (wpc[p][k] = "acquire" /\ wtries[p][k] > 0) => werr[p][k] # "nil"
            /\ (wpc[p][k] = "holding" /\ wtries[p][k] > 1) => werr[p][k] # "nil"
            /\ Exhausted(p, k) => wtries[p][k] = MaxRetryAttempts

\* C5 witness: a job has returned with one URI that succeeded on its last
\* allowed attempt and one that failed on all of them.
C5_Witness ==
    \E p \in Progs :
        /\ bpc[p] = "returned"
        /\ \E k, m \in 1..Len(blist[p]) :
              /\ Succeeded(p, k) /\ wtries[p][k] = MaxRetryAttempts
              /\ Exhausted(p, m) /\ wtries[p][m] = MaxRetryAttempts

\* C14: within one job two workers whose URIs differ never write the same
\* destination path: when both have downloaded their URI, the file names
\* filepath.Split gave them differ.
C14_DistinctPaths ==
    \A p \in Progs :
        \A k, m \in 1..Len(blist[p]) :
            (/\ blist[p][k] # blist[p][m]
             /\ Succeeded(p, k)
             /\ Succeeded(p, m)) => Split(blist[p][k]) # Split(blist[p][m])

\* C15 as stated: the first download request for the URI at position i is
\* started before the first request for a URI at a later position j.
C15_RequestOrder ==
    \A p \in Progs :
        \A i, j \in 1..Len(blist[p]) :
            (i < j /\ wtries[p][j] > 0) => wtries[p][i] > 0

\* C15 amended: the workers are started in playlist order, the goroutine of
\* the URI at position i before that of a later position j; the order of
\* their first requests is not constrained.
C15_StartedInOrder ==
    \A p \in Progs :
        \A i, j \in 1..Len(blist[p]) :
            (i < j /\ wpc[p][j] # "none") => wpc[p][i] # "none"

\* C15 witness: the worker of the second URI has made its first request
\* while the worker of the first URI, started before it, has made none.
C15_Witness ==
    \E p \in Progs :
        /\ Len(blist[p]) >= 2
        /\ wtries[p][2] > 0
        /\ wpc[p][1] = "acquire"
        /\ wtries[p][1] = 0

\* C18: the occupied slots of sem are exactly the attempts in progress (the
\* workers inside downloadLink), a worker between two attempts or after its
\* last one holds none, and when no job is running every slot is free.
C18_SlotAccounting ==
    /\ sem = Cardinality({ x \in Progs \X Workers : wpc[x[1]][x[2]] = "holding" })
    /\ sem >= 0
    /\ (\A p \in Progs : bpc[p] \in { "idle", "returned" }) => sem = 0

\* C18 witness: no job is running and every slot is free after a job whose
\* URI failed on every attempt, taking and releasing a slot each time, and
\* a job whose URI succeeded.
C18_Witness ==
    /\ sem = 0
    /\ \A p \in Progs : bpc[p] = "returned"
    /\ \E p, q \in Progs :
          /\ Exhausted(p, 1) /\ wtries[p][1] = MaxRetryAttempts
          /\ Succeeded(q, 1)

\* C20: every call of bulkDownload returns, whatever the other job does
\* with the slots of sem, and a call with the empty list returns nil without
\* any worker and without taking a slot.
C20_BulkReturns ==
    /\ \A p \in Progs : (bpc[p] = "spawn") ~> (bpc[p] = "returned")
    /\ [](\A p \in Progs :
            (bpc[p] = "returned" /\ blist[p] = <<>>) =>
                /\ bret[p] = "nil"
                /\ \A k \in Workers : wpc[p][k] = "none" /\ wtries[p][k] = 0)

\* C20 witness: a job has returned although one of its workers had to wait
\* for a slot the other job was holding: both jobs' URIs were attempted
\* MaxRetryAttempts times.
C20_Witness ==
    \E p, q \in Progs :
        /\ p # q
        /\ bpc[p] = "returned" /\ Len(blist[p]) = MaxLen
        /\ \A k \in 1..Len(blist[p]) : wtries[p][k] = MaxRetryAttempts
        /\ bpc[q] = "spawn" /\ Len(blist[q]) >= 1
        /\ wpc[q][1] = "acquire" /\ wtries[q][1] = 1

\* =================================================================
\* Properties of the pipeline, checked under Spec and FairSpec.

\* C6: once the temporary segment directory has been created it no longer
\* exists when the program's retrieval has ended, whichever way it ended,
\* the fatal unrecognized-format exit included.
C6_TempDirRemoved ==
    \A p \in Progs :
        ppc[p] \in Terminal \cup { "fatal" } => aacDir[p] # "exists"

\* C7 as stated: a caller waiting on the WaitGroup is always eventually
\* unblocked.
C7_AlwaysUnblocked == (mainpc = "waiting") ~> (mainpc = "unblocked")

\* C7 amended: a caller waiting on the WaitGroup is eventually unblocked
\* unless log.Fatal ends the process, and it is unblocked only when every
\* program is in a terminal state.
C7_BarrierReleased ==
    /\ [](mainpc = "unblocked" => \A p \in Progs : ppc[p] \in Terminal)
    /\ (mainpc = "waiting") ~> (mainpc = "unblocked" \/ exited)

\* C7 witness: the caller is unblocked after one program's resolution failed
\* on all MaxRetryAttempts attempts and another program succeeded.
C7_Witness ==
    /\ mainpc = "unblocked"
    /\ \E p, q \in Progs :
          /\ ppc[p] = "unresolved"
          /\ rtries[p] = MaxRetryAttempts
          /\ rerr[p] # "nil"
          /\ ppc[q] = "success"

\* C8: a call of Download for a program starting strictly after CurrentTime
\* returns nil and changes nothing: no directory, no resolver, playlist or
\* segment request, no detached work, no wg.Add; a program starting exactly
\* at CurrentTime is not skipped as a future one.
C8_FutureSkipped ==
    [][\A p \in Progs :
         (ncalls'[p] # ncalls[p] /\ ~ParseInLocation(ft[p]).err) =>
            /\ ParseInLocation(ft[p]).t > CurrentTime =>
                  /\ dret'[p] = "nil"
                  /\ ppc'[p] = "future"
                  /\ UNCHANGED << wg, outDir, aacDir, outFile, rtries, rerr, uri,
                                  chunklist, bulkVars >>
            /\ ParseInLocation(ft[p]).t = CurrentTime => ppc'[p] # "future"
    ]_vars

\* C8 witness: a future program has been skipped with no output directory
\* while a program starting exactly at CurrentTime has been detached.
C8_Witness ==
    \E p, q \in Progs :
        /\ ppc[p] = "future" /\ ncalls[p] = 1 /\ ~outDir[p] /\ dret[p] = "nil"
        /\ ~ParseInLocation(ft[q]).err
        /\ ParseInLocation(ft[q]).t = CurrentTime
        /\ ppc[q] = "resolve"

\* C9: a call of Download for a program whose previous run ended in success
\* finds the artifact, starts no resolution, playlist fetch or segment
\* download, leaves the WaitGroup counter and the artifact as they are.
C9_Idempotent ==
    [][\A p \in Progs :
         (ncalls'[p] # ncalls[p] /\ ppc[p] = "success") =>
            /\ outFile[p] # 0
            /\ ppc'[p] \in { "exists", "cfgerr", "direrr" }
            /\ UNCHANGED << wg, outFile, aacDir, rtries, rerr, uri, chunklist,
                            bulkVars >>
    ]_vars

\* C9 witness: the second call for a program has skipped it, the artifact
\* being the one the first call's run wrote.
C9_Witness ==
    \E p \in Progs :
        ncalls[p] = 2 /\ ppc[p] = "exists" /\ outFile[p] = 1 /\ wg = 0

\* C16: a stage of a program's retrieval is entered only from the stage
\* before it and only when that stage succeeded: segments are listed after
\* the resolution, the temporary directory is made after a listing that
\* read a media playlist, segments are downloaded after the directory was
\* made, the assembler runs after every URI was downloaded, the format is
\* finalized after the assembly, tags are written after the output file was
\* written; a retrieval that failed leaves no file at the output path.
C16_StagesInOrder ==
    [][\A p \in Progs :
         ppc'[p] # ppc[p] =>
            /\ ppc'[p] = "list" => ppc[p] = "resolve"
            /\ ppc'[p] = "tempdir" => (ppc[p] = "list" /\ ltype'[p] = "MEDIA")
            /\ ppc'[p] = "bulk" => (ppc[p] = "tempdir" /\ aacDir'[p] = "exists")
            /\ ppc'[p] = "concat" =>
                  /\ ppc[p] = "bulk"
                  /\ \A k \in 1..Len(blist[p]) : Succeeded(p, k)
            /\ ppc'[p] = "finalize" => ppc[p] = "concat"
            /\ ppc'[p] = "tag" => (ppc[p] = "finalize" /\ outFile'[p] # 0)
            /\ ppc'[p] = "success" => ppc[p] = "tag"
            /\ ppc'[p] \in Failed => (outFile[p] = 0 /\ outFile'[p] = 0)
    ]_vars

\* C17: the resolver goroutine calls TimeshiftProgM3U8 at least once and at
\* most MaxRetryAttempts times and never again after an attempt without
\* error; it goes on to the listing only with a non-empty uri, and with an
\* empty uri it ends the unit: nothing is listed, downloaded, assembled,
\* finalized or tagged, no file is produced, and only a new call of Download
\* takes the program up again.
C17_ResolverRetries ==
    /\ [](\A p \in Progs :
            /\ rtries[p] <= MaxRetryAttempts
            /\ (ppc[p] = "resolve" /\ rtries[p] > 0) => rerr[p] # "nil"
            /\ ppc[p] = "unresolved" => (rtries[p] >= 1 /\ outFile[p] = 0))
    /\ [][\A p \in Progs :
            /\ (ppc[p] = "resolve" /\ ppc'[p] # "resolve") =>
                   \/ ppc'[p] = "list" /\ uri'[p] # ""
                   \/ /\ ppc'[p] = "unresolved" /\ uri'[p] = ""
                      /\ UNCHANGED << chunklist, ltype, aacDir, outFile, bulkVars >>
            /\ (ppc[p] = "unresolved" /\ ppc'[p] # "unresolved") =>
                   ncalls'[p] = ncalls[p] + 1
       ]_vars

\* C17 witness: one unit has ended unresolved after a single attempt that
\* returned an empty uri without error, another after MaxRetryAttempts
\* attempts that all failed.
C17_Witness ==
    \E p, q \in Progs :
        /\ ppc[p] = "unresolved" /\ rtries[p] = 1 /\ rerr[p] = "nil"
        /\ ppc[q] = "unresolved" /\ rtries[q] = MaxRetryAttempts /\ rerr[q] # "nil"

\* The states of a program that Download has detached and that has not
\* reached a terminal state (a program ended by log.Fatal never does).
Detached == { "resolve", "list", "tempdir", "bulk", "concat", "finalize", "tag",
              "fatal" }

\* C19: the counter of the shared WaitGroup is never negative and is always
\* the number of detached programs that have not reached a terminal state:
\* one wg.Add(1) per program passing the time and existence checks, made
\* before Download returns, and one wg.Done() per such program, by the
\* resolver goroutine or by downloadProgram, never both.
C19_BarrierCounter ==
    /\ wg >= 0
    /\ wg = Cardinality({ p \in Progs : ppc[p] \in Detached })
    /\ \A p \in Progs : ppc[p] \in Detached \cup Terminal \cup { "new" }

\* C19 witness: one program's counter unit was given back by the resolver
\* goroutine on an empty uri while another detached program is still
\* downloading; the counter is one.
C19_Witness ==
    /\ wg = 1
    /\ \E p, q \in Progs : ppc[p] = "unresolved" /\ ppc[q] = "bulk"

\* =================================================================
\* Properties of the parsers, checked under SpecParse.

\* C10: getURI on a decoded playlist that is not a master playlist, and
\* getChunklist on a decoded playlist that is not a media playlist, return a
\* non-nil error.
C10_WrongKindIsError ==
    LET d == DecodeFrom(pin)
    IN  /\ (pfun = "getURI" /\ d.err = "nil" /\ d.listType # "MASTER")
              => pres.err # "nil"
        /\ (pfun = "getChunklist" /\ d.err = "nil" /\ d.listType # "MEDIA")
              => pres.err # "nil"

\* C11: for a master playlist getURI returns the URI of the single variant
\* with no error when p.Variants has exactly one entry, and the error
\* "invalid m3u8 format" with an empty URI when it has none or several; a
\* nil slot of p.Variants is no variant, and gets the format error too.
C11_ExactlyOneVariant ==
    (pfun = "getURI" /\ pin.kind = "master") =>
        LET v == pin.variants
        IN  IF Len(v) = 1 /\ ~v[1].isNil
            THEN pres.uri = v[1].URI /\ pres.err = "nil"
            ELSE pres.uri = "" /\ pres.err = "invalid m3u8 format"

\* C11 witness: getURI has returned the URI of a master playlist's only
\* variant.
C11_Witness ==
    /\ pfun = "getURI"
    /\ pin.kind = "master"
    /\ Len(pin.variants) = 1
    /\ pres.uri = "m"
    /\ pres.err = "nil"

\* C12 as stated: Download returns nil for every program and every outcome
\* of its steps.
C12_NeverReturnsError == \A p \in Progs : dret[p] # "err"

\* C12 amended: Download returns an error exactly when the start time does
\* not parse, the output configuration fails or the output directory cannot
\* be set up, nothing being detached then; otherwise it returns nil, whatever
\* becomes of the detached retrieval.
C12_ErrorOnlyBeforeDetach ==
    \A p \in Progs :
        /\ dret[p] = "none" <=> ncalls[p] = 0
        /\ dret[p] = "err" <=> ppc[p] \in { "badtime", "cfgerr", "direrr" }
        /\ (ncalls[p] > 0 /\ ft[p] \notin DOMAIN TimeOf) => dret[p] = "err"

\* C12 witness: one call has returned an error for a directory that could
\* not be set up, another has returned nil for a program whose detached
\* retrieval then failed in the segment download.
C12_Witness ==
    \E p, q \in Progs :
        /\ dret[p] = "err" /\ ppc[p] = "direrr"
        /\ dret[q] = "nil" /\ ppc[q] = "dlerr"

\* =================================================================
\* Properties of the pipeline under cancellation, checked under SpecCancel.

\* C13: once ctx is cancelled no new segment download attempt is started
\* (no worker takes a slot and calls downloadLink) and no playlist fetch is
\* started (no program goes through getChunklistFromM3U8).
C13_CancelAborts ==
    [][cancelled =>
         /\ \A p \in Progs, k \in Workers : wtries'[p][k] <= wtries[p][k]
         /\ \A p \in Progs : ppc[p] = "list" => ppc'[p] = "list"
    ]_vars

====
